---- MODULE Spec2Model ----
(***************************************************************************)
(* Model of the iterative text-refinement loop of utils/editor.py:         *)
(* scrub_boilerplate, grade_base, smooth_score and refine_article.         *)
(*                                                                         *)
(* A text is a sequence of tokens.  An Optional[int] is <<>> (None) or     *)
(* <<v>>.  The momentum of smooth_score is carried in tenths (6 is 0.6).   *)
(***************************************************************************)
EXTENDS Integers, Sequences, FiniteSets, TLC

\* ------------------------------------------------------------------ bounds
MaxLimit == 5
MaxFairLimit == 4
MaxConcLimit == 3
MaxDeadband == 2
MaxMaxStep == 2

\* ------------------------------------------------------- program constants
MinScore == 1
MaxScore == 100
BestSentinel == 101
DefaultMomentum == 6
DefaultDeadband == 1
DefaultMaxStep == 12
DefaultThreshold == 20
DefaultImprovement == 2
DefaultPatience == 3

None == <<>>
Some(v) == <<v>>
Val(o) == o[1]

Abs(x) == IF x < 0 THEN -x ELSE x
Min2(a, b) == IF a < b THEN a ELSE b
Max2(a, b) == IF a > b THEN a ELSE b

\* ------------------------------------------------------------------- texts
\* A token is a word, a cliche phrase matched by CLICHE_PATTERNS, or a space.
\* The texts carry no stacked hedges and no blank-line runs, so the two
\* substitutions of lines 43-48 and 51 leave them as they are.
Cliche == "cliche"
Space == "sp"

RECURSIVE RemoveCliches(_)
RemoveCliches(t) ==
  IF t = <<>> THEN <<>>
  ELSE IF Head(t) = Cliche THEN RemoveCliches(Tail(t))
  ELSE <<Head(t)>> \o RemoveCliches(Tail(t))

RECURSIVE CollapseSpaces(_)
CollapseSpaces(t) ==
  IF Len(t) < 2 THEN t
  ELSE IF Head(t) = Space /\ t[2] = Space THEN CollapseSpaces(Tail(t))
  ELSE <<Head(t)>> \o CollapseSpaces(Tail(t))

RECURSIVE StripLeft(_)
StripLeft(t) ==
  IF t # <<>> /\ Head(t) = Space THEN StripLeft(Tail(t)) ELSE t

RECURSIVE StripRight(_)
StripRight(t) ==
  IF t # <<>> /\ t[Len(t)] = Space THEN StripRight(SubSeq(t, 1, Len(t) - 1)) ELSE t

Strip(t) == StripRight(StripLeft(t))

scrub_boilerplate(text) == Strip(CollapseSpaces(RemoveCliches(text)))

InputTexts == { <<"cliche", "sp", "a", "sp", "sp", "b", "sp">> }

\* An argument that is not a str, such as None or bytes: Python does not
\* enforce the annotation of line 237, and re.sub raises TypeError at line 41.
NotAString == <<"bytes">>
ScrubRaises(text) == text = NotAString
LedeOutputs == { <<"a">> }
RewriterOutputs == { <<"a">>, <<"b">> }

\* ------------------------------------------------------------ grade_base
Digits == <<"0", "1", "2", "3", "4", "5", "6", "7", "8", "9">>
IsDigit(ch) == \E i \in 1..Len(Digits) : Digits[i] = ch
DigitValue(ch) == (CHOOSE i \in 1..Len(Digits) : Digits[i] = ch) - 1

RECURSIVE KeepDigits(_)
KeepDigits(content) ==
  IF content = <<>> THEN <<>>
  ELSE IF IsDigit(Head(content)) THEN <<Head(content)>> \o KeepDigits(Tail(content))
  ELSE KeepDigits(Tail(content))

RECURSIVE IntOfDigits(_)
IntOfDigits(ds) ==
  IF ds = <<>> THEN 0
  ELSE 10 * IntOfDigits(SubSeq(ds, 1, Len(ds) - 1)) + DigitValue(ds[Len(ds)])

GradeRaises(content) == KeepDigits(content) = <<>>

\* Mutant: only the lower end is clamped.
Clamp_lower(score) == Max2(MinScore, score)
Clamp(score) == Max2(MinScore, Min2(score, MaxScore))

grade_base(content) == Clamp(IntOfDigits(KeepDigits(content)))

\* What the grading model may reply, by scorer behaviour: a scorer that drifts
\* slowly around 80, and one that jumps, leaves the range or replies no number.
DriftingReplies ==
  { <<"8", "0">>, <<"7", "9">>, <<"7", "8">>, <<"2", "0">> }
JumpingReplies ==
  { <<"5", "0">>, <<"1", "8">>, <<"1", "5", "0">>, <<"0">>, <<"n", "/", "a">> }
ScorerBehaviours == { DriftingReplies, JumpingReplies }

\* ----------------------------------------------------------- smooth_score
\* Mutant: the fraction is cut off, as int() does without round().
RoundHalfEven_truncate(n, d) == IF n >= 0 THEN n \div d ELSE -((-n) \div d)

\* round(n / d) of Python 3: to the nearest integer, a tie to the even one.
RoundHalfEven(n, d) ==
  LET q == n \div d
      r == n % d
  IN IF 2 * r < d THEN q
     ELSE IF 2 * r > d THEN q + 1
     ELSE IF q % 2 = 0 THEN q ELSE q + 1

\* Mutant: a change equal to the deadband is no longer ignored.
InDeadband_strict(delta, deadband) == Abs(delta) < deadband
InDeadband(delta, deadband) == Abs(delta) <= deadband

\* Mutant: the blend weighs the change with 1 + momentum and overshoots.
BlendStep_overshoot(previous, base, momentum) ==
  RoundHalfEven((base - previous) * (10 + momentum), 10)

BlendStep(previous, base, momentum) ==
  RoundHalfEven((base - previous) * (10 - momentum), 10)

\* Mutant: the step is not capped.
CapStep_uncapped(step, max_step) == step

\* Mutant: max_step is the least movement instead of the greatest.
CapStep_floor(step, max_step) ==
  IF step > 0 THEN Max2(step, max_step)
  ELSE IF step < 0 THEN Min2(step, -max_step)
  ELSE step

CapStep(step, max_step) ==
  IF step > 0 THEN Min2(step, max_step)
  ELSE IF step < 0 THEN Max2(step, -max_step)
  ELSE step

\* Mutant: the raw score is used as it is.
smooth_score_unsmoothed(previous, base, momentum, deadband, max_step) == base

smooth_score(previous, base, momentum, deadband, max_step) ==
  IF previous = None THEN base
  ELSE IF InDeadband(base - Val(previous), deadband) THEN Val(previous)
  ELSE Clamp(Val(previous) + CapStep(BlendStep(Val(previous), base, momentum), max_step))


\* ------------------------------------------------------ refine_article
\* pc is the place in refine_article: "start" before line 248, "loop" at the
\* while test of line 269, "rewrite" at the humanize_article call of line 301
\* or 312, "done" after a return, "failed" after an exception left the
\* function.  raised is the exception the caller then holds.  gradeLog and
\* rewriteLog record the calls that returned; gradeCalls and rewriteCalls
\* count every call made.
VARIABLES
  article_text, scorer, limit, threshold, require_base_improvement, no_gain_patience,
  pc, test_article, counter, prev_smoothed, best_score, best_article, best_iter,
  no_gain_streak, prev_base, base, mode, outcome, returned, raised,
  gradeCalls, rewriteCalls, gradeLog, rewriteLog,
  sm_momentum, sm_deadband, sm_max_step, sm_previous, sm_base, sm_result,
  active, parked

args == <<article_text, scorer, limit, threshold, require_base_improvement, no_gain_patience>>
locals ==
  <<test_article, counter, prev_smoothed, best_score, best_article, best_iter,
    no_gain_streak, prev_base, base>>
control == <<pc, mode, outcome, returned, raised>>
history == <<gradeCalls, rewriteCalls, gradeLog, rewriteLog>>
smoothVars == <<sm_momentum, sm_deadband, sm_max_step, sm_previous, sm_base, sm_result>>
\* A second call of refine_article in the same process: active is the call
\* whose frame the variables above hold, parked is the frame of the other call
\* (None when there is no other call).
otherRun == <<active, parked>>
vars == <<args, locals, control, history, smoothVars, otherRun>>

Limits == {-1} \cup (0..MaxLimit)
Thresholds == {DefaultThreshold, MaxScore + 1}
Improvements == {DefaultImprovement}
Patiences == 1..DefaultPatience

\* Mutant: the loop runs one round more.
LoopCond_inclusive(c, lim) == c <= lim
\* Mutant: the loop stops one round early.
LoopCond_short(c, lim) == c < lim - 1
LoopCond(c, lim) == c < lim
\* Mutant: the comparison is turned around.
IsNewBest_flipped(my_grade, best) == my_grade > best
\* Mutant: only the first round is ever recorded as the best.
IsNewBest_first(my_grade, best) == best = BestSentinel
\* Mutant: a round that ties with the best replaces it.
IsNewBest_ties(my_grade, best) == my_grade <= best
IsNewBest(my_grade, best) == my_grade < best
\* Mutant: a smoothed score equal to the threshold is not good enough.
GoodEnough_strict(my_grade, thr) == my_grade < thr
GoodEnough(my_grade, thr) == my_grade <= thr
\* Mutant: a gain of exactly require_base_improvement counts as no gain.
NoGain_inclusive(pb, b, req) == pb # None /\ (Val(pb) - b) <= req
NoGain(pb, b, req) == pb # None /\ (Val(pb) - b) < req
\* Mutant: a round without gain counts twice.
NextStreak_double(streak, pb, b, req) == IF NoGain(pb, b, req) THEN streak + 2 ELSE 0
NextStreak(streak, pb, b, req) == IF NoGain(pb, b, req) THEN streak + 1 ELSE 0
\* Mutant: the escalation waits for the full patience.
ShouldEscalate_late(streak, patience, c, lim) == streak = patience /\ c < lim
\* Mutant: the escalation does not ask whether a round remains.
ShouldEscalate_nolimit(streak, patience, c, lim) == streak = patience - 1
\* Mutant: once the streak is long enough the escalation stays on.
ShouldEscalate_sticky(streak, patience, c, lim) == streak >= patience - 1 /\ c < lim
ShouldEscalate(streak, patience, c, lim) == streak = patience - 1 /\ c < lim
\* Mutant: the early stop needs one more round without gain.
ShouldStopEarly_strict(streak, patience) == streak > patience
ShouldStopEarly(streak, patience) == streak >= patience
\* Mutant: the best article follows the current one.
TrackBestArticle_alias(better, current, best) == current
TrackBestArticle(better, current, best) == IF better THEN current ELSE best
\* Mutant: the rewritten text is appended to the current one.
AssignRewritten_appended(current, out) == current \o out
\* lines 301 and 312: test_article = humanize_article(...).
AssignRewritten(current, out) == out
\* Mutant: the Rewriter is given the smoothed score.
RewriteScore_smoothed(b, smoothed) == smoothed
\* lines 301 and 312: score=base.
RewriteScore(b, smoothed) == b
ReturnOnConverged(current, best) == current
\* Mutant: the early stop returns the current text.
ReturnOnEarlyStop_current(current, best) == current
ReturnOnEarlyStop(current, best) == best
\* Mutant: the last rewrite is returned at the iteration limit.
ReturnOnExhausted_current(current, best) == current
ReturnOnExhausted(current, best) == best

\* Mutant: the exception is caught and the loop goes on, as for the lede pass.
ExceptionSwallowed == "loop"
\* No try/except encloses the calls of lines 274, 301 and 312.
ExceptionLeaves == "failed"
\* What an exception carries: its type and message, and nothing of the locals.
Exception(type, message) == [type |-> type, message |-> message, attached |-> None]

SmoothIdle ==
  /\ sm_momentum = DefaultMomentum
  /\ sm_deadband = DefaultDeadband
  /\ sm_max_step = DefaultMaxStep
  /\ sm_previous = None
  /\ sm_base = None
  /\ sm_result = None

NoOtherRun ==
  /\ active = 1
  /\ parked = None

RunStart ==
  /\ pc = "start"
  /\ test_article = article_text
  /\ counter = 0
  /\ prev_smoothed = None
  /\ best_score = BestSentinel
  /\ best_article = article_text
  /\ best_iter = 0
  /\ no_gain_streak = 0
  /\ prev_base = None
  /\ base = None
  /\ mode = "none"
  /\ outcome = "RUNNING"
  /\ returned = None
  /\ raised = None
  /\ gradeCalls = 0
  /\ rewriteCalls = 0
  /\ gradeLog = <<>>
  /\ rewriteLog = <<>>

Init ==
  /\ article_text \in InputTexts
  /\ scorer \in ScorerBehaviours
  /\ limit \in Limits
  /\ threshold \in Thresholds
  /\ require_base_improvement \in Improvements
  /\ no_gain_patience \in Patiences
  /\ RunStart
  /\ SmoothIdle
  /\ NoOtherRun

\* lines 247-267: the scrub, the lede pass inside try/except, the locals.
Preprocess ==
  /\ pc = "start"
  /\ ~ScrubRaises(article_text)
  /\ \E lede \in LedeOutputs \cup {None} :
       LET scrubbed == scrub_boilerplate(article_text)
           start == IF lede = None THEN scrubbed ELSE lede
       IN /\ test_article' = start
          /\ best_article' = start
  /\ pc' = "loop"
  /\ UNCHANGED <<args, counter, prev_smoothed, best_score, best_iter,
                 no_gain_streak, prev_base, base, mode, outcome, returned,
                 raised, history, smoothVars, otherRun>>

\* lines 269-274 when grade_base raises, on a reply without a digit (line 127)
\* or in the API call (line 114): the exception leaves refine_article.
GradeFails ==
  /\ pc = "loop"
  /\ LoopCond(counter, limit)
  /\ \/ \E content \in scorer :
          /\ GradeRaises(content)
          /\ raised' = Some(Exception("ValueError", content))
     \/ raised' = Some(Exception("APIError", <<>>))
  /\ counter' = counter + 1
  /\ gradeCalls' = gradeCalls + 1
  /\ pc' = ExceptionLeaves
  /\ outcome' = "FAILED"
  /\ UNCHANGED <<args, test_article, prev_smoothed, best_score, best_article,
                 best_iter, no_gain_streak, prev_base, base, mode, returned,
                 rewriteCalls, gradeLog, rewriteLog, smoothVars, otherRun>>

\* lines 269-308: one round up to its return or its rewrite call.
Round(content) ==
  /\ pc = "loop"
  /\ LoopCond(counter, limit)
  /\ ~GradeRaises(content)
  /\ \E b \in { grade_base(content) } :
     \E my_grade \in { smooth_score(prev_smoothed, b, DefaultMomentum, DefaultDeadband,
                                    DefaultMaxStep) } :
     \E streak \in { NextStreak(no_gain_streak, prev_base, b, require_base_improvement) } :
       LET c == counter + 1
           better == IsNewBest(my_grade, best_score)
           nbest == TrackBestArticle(better, test_article, best_article)
       IN /\ counter' = c
          /\ gradeCalls' = gradeCalls + 1
          /\ base' = Some(b)
          /\ prev_smoothed' = Some(my_grade)
          /\ gradeLog' = Append(gradeLog, [text |-> test_article, reply |-> content,
                                           raw |-> b, smoothed |-> my_grade])
          /\ best_score' = IF better THEN my_grade ELSE best_score
          /\ best_article' = nbest
          /\ best_iter' = IF better THEN c ELSE best_iter
          /\ IF GoodEnough(my_grade, threshold)
             THEN /\ pc' = "done"
                  /\ outcome' = "CONVERGED"
                  /\ returned' = Some(ReturnOnConverged(test_article, nbest))
                  /\ UNCHANGED <<no_gain_streak, prev_base, mode>>
             ELSE /\ no_gain_streak' = streak
                  /\ prev_base' = Some(b)
                  /\ IF ShouldEscalate(streak, no_gain_patience, c, limit)
                     THEN /\ pc' = "rewrite"
                          /\ mode' = "aggressive"
                          /\ UNCHANGED <<outcome, returned>>
                     ELSE IF ShouldStopEarly(streak, no_gain_patience)
                     THEN /\ pc' = "done"
                          /\ outcome' = "STAGNATED"
                          /\ returned' = Some(ReturnOnEarlyStop(test_article, nbest))
                          /\ UNCHANGED mode
                     ELSE /\ pc' = "rewrite"
                          /\ mode' = "gentle"
                          /\ UNCHANGED <<outcome, returned>>
  /\ UNCHANGED <<args, test_article, raised, rewriteCalls, rewriteLog, smoothVars, otherRun>>

Grade == \E content \in scorer : Round(content)

\* lines 301 and 312: humanize_article(test_article, score=base, mode=...).
Rewrite ==
  /\ pc = "rewrite"
  /\ \E out \in RewriterOutputs :
       /\ test_article' = AssignRewritten(test_article, out)
       /\ rewriteLog' = Append(rewriteLog,
            [round |-> counter, text |-> test_article,
             score |-> RewriteScore(Val(base), Val(prev_smoothed)),
             mode |-> mode, out |-> out])
  /\ rewriteCalls' = rewriteCalls + 1
  /\ pc' = "loop"
  /\ UNCHANGED <<args, counter, prev_smoothed, best_score, best_article, best_iter,
                 no_gain_streak, prev_base, base, mode, outcome, returned,
                 raised, gradeCalls, gradeLog, smoothVars, otherRun>>

\* humanize_article raises: the exception leaves refine_article.
RewriteFails ==
  /\ pc = "rewrite"
  /\ rewriteCalls' = rewriteCalls + 1
  /\ raised' = Some(Exception("APIError", <<>>))
  /\ pc' = ExceptionLeaves
  /\ outcome' = "FAILED"
  /\ UNCHANGED <<args, locals, mode, returned, gradeCalls, gradeLog, rewriteLog,
                 smoothVars, otherRun>>

\* lines 314-316: the while condition is false.
Exhaust ==
  /\ pc = "loop"
  /\ ~LoopCond(counter, limit)
  /\ pc' = "done"
  /\ outcome' = "EXHAUSTED"
  /\ returned' = Some(ReturnOnExhausted(test_article, best_article))
  /\ UNCHANGED <<args, locals, mode, raised, history, smoothVars, otherRun>>

Next == Preprocess \/ Grade \/ GradeFails \/ Rewrite \/ RewriteFails \/ Exhaust

Spec == Init /\ [][Next]_vars

\* The run when every Scorer and Rewriter call returns.  refine_article is
\* sequential code: whenever it has a next step it takes it.
NoFailNext == Preprocess \/ Grade \/ Rewrite \/ Exhaust

NoFailInit == Init /\ limit <= MaxFairLimit

NoFailSpec == NoFailInit /\ [][NoFailNext]_vars /\ WF_vars(NoFailNext)

\* ------------------------------------------- smooth_score on its own
\* Momenta in tenths whose blend is computed without a rounding tie decided by
\* floating-point error: 0.0, 0.5, 0.6, 0.8.
Momenta == {0, 5, 6, 8}
Deadbands == 0..MaxDeadband
MaxSteps == (1..MaxMaxStep) \cup {DefaultMaxStep}
SmoothInputs == {1, 2, 3, 4, 5, 8, 18, 20, 38, 50, 78, 79, 80, 96, 98, 99, 100}

RunIdle ==
  /\ article_text = <<"a">>
  /\ scorer = DriftingReplies
  /\ limit = MaxLimit
  /\ threshold = DefaultThreshold
  /\ require_base_improvement = DefaultImprovement
  /\ no_gain_patience = DefaultPatience
  /\ RunStart
  /\ NoOtherRun

SmoothInit ==
  /\ sm_momentum \in Momenta
  /\ sm_deadband \in Deadbands
  /\ sm_max_step \in MaxSteps
  /\ sm_previous = None
  /\ sm_base = None
  /\ sm_result = None
  /\ RunIdle

\* One call smooth_score(previous, base, ...), previous being the last result,
\* as at lines 275-276.
SmoothCall ==
  /\ \E raw \in SmoothInputs :
       /\ sm_base' = Some(raw)
       /\ sm_result' = Some(smooth_score(sm_result, raw, sm_momentum, sm_deadband,
                                         sm_max_step))
  /\ sm_previous' = sm_result
  /\ UNCHANGED <<args, locals, control, history, sm_momentum, sm_deadband, sm_max_step,
                 otherRun>>

SmoothNext == SmoothCall

SmoothSpec == SmoothInit /\ [][SmoothNext]_vars

\* ---------------------------------------------------------------------
\* Runs on every argument Python lets through, a malformed one included.
\* line 248 is outside the try of lines 251-255: what scrub_boilerplate raises
\* leaves refine_article.
ScrubFails ==
  /\ pc = "start"
  /\ ScrubRaises(article_text)
  /\ raised' = Some(Exception("TypeError", <<>>))
  /\ pc' = ExceptionLeaves
  /\ outcome' = "FAILED"
  /\ UNCHANGED <<args, locals, mode, returned, history, smoothVars, otherRun>>

MalformedInit ==
  /\ article_text \in InputTexts \cup {NotAString}
  /\ scorer \in ScorerBehaviours
  /\ limit \in Limits
  /\ threshold \in Thresholds
  /\ require_base_improvement \in Improvements
  /\ no_gain_patience \in Patiences
  /\ RunStart
  /\ SmoothIdle
  /\ NoOtherRun

MalformedNext == Next \/ ScrubFails

MalformedSpec == MalformedInit /\ [][MalformedNext]_vars

\* smooth_score as refine_article calls it (line 275: the defaults of lines
\* 137-139), on every previous and base a run can hold: previous None or a
\* score, base a score.  The call is repeated with other bases.
ScoreRange == MinScore..MaxScore

DefaultSmoothInit ==
  /\ sm_momentum = DefaultMomentum
  /\ sm_deadband = DefaultDeadband
  /\ sm_max_step = DefaultMaxStep
  /\ sm_previous \in {None} \cup {Some(p) : p \in ScoreRange}
  /\ sm_base = None
  /\ sm_result = None
  /\ RunIdle

DefaultSmoothCall ==
  /\ \E raw \in ScoreRange :
       /\ sm_base' = Some(raw)
       /\ sm_result' = Some(smooth_score(sm_previous, raw, sm_momentum, sm_deadband,
                                         sm_max_step))
  /\ UNCHANGED <<args, locals, control, history, sm_momentum, sm_deadband, sm_max_step,
                 sm_previous, otherRun>>

DefaultSmoothNext == DefaultSmoothCall

DefaultSmoothSpec == DefaultSmoothInit /\ [][DefaultSmoothNext]_vars

\* ---------------------------------------------------------------------
\* Two calls of refine_article interleaved in one process.  Every name the
\* function assigns is a parameter or a local of the call (lines 236-267), so
\* each call has a frame of its own; the module-level names (client, logger,
\* CLICHE_PATTERNS) are never assigned by it.
Frame ==
  [article_text |-> article_text, scorer |-> scorer, limit |-> limit,
   threshold |-> threshold, require_base_improvement |-> require_base_improvement,
   no_gain_patience |-> no_gain_patience,
   pc |-> pc, test_article |-> test_article, counter |-> counter,
   prev_smoothed |-> prev_smoothed, best_score |-> best_score,
   best_article |-> best_article, best_iter |-> best_iter,
   no_gain_streak |-> no_gain_streak, prev_base |-> prev_base, base |-> base,
   mode |-> mode, outcome |-> outcome, returned |-> returned, raised |-> raised,
   gradeCalls |-> gradeCalls, rewriteCalls |-> rewriteCalls,
   gradeLog |-> gradeLog, rewriteLog |-> rewriteLog]

\* Mutant: best_score is one module-level name that every call reads and writes.
BestScoreOf_shared(f) == best_score

\* line 261: best_score is a local of the call.
BestScoreOf(f) == f.best_score

\* The interpreter resumes the other call: its frame becomes the current one.
Resume(f) ==
  /\ article_text' = f.article_text
  /\ scorer' = f.scorer
  /\ limit' = f.limit
  /\ threshold' = f.threshold
  /\ require_base_improvement' = f.require_base_improvement
  /\ no_gain_patience' = f.no_gain_patience
  /\ pc' = f.pc
  /\ test_article' = f.test_article
  /\ counter' = f.counter
  /\ prev_smoothed' = f.prev_smoothed
  /\ best_score' = BestScoreOf(f)
  /\ best_article' = f.best_article
  /\ best_iter' = f.best_iter
  /\ no_gain_streak' = f.no_gain_streak
  /\ prev_base' = f.prev_base
  /\ base' = f.base
  /\ mode' = f.mode
  /\ outcome' = f.outcome
  /\ returned' = f.returned
  /\ raised' = f.raised
  /\ gradeCalls' = f.gradeCalls
  /\ rewriteCalls' = f.rewriteCalls
  /\ gradeLog' = f.gradeLog
  /\ rewriteLog' = f.rewriteLog

StartFrame(text, replies, lim, thr, req, pat) ==
  [article_text |-> text, scorer |-> replies, limit |-> lim,
   threshold |-> thr, require_base_improvement |-> req, no_gain_patience |-> pat,
   pc |-> "start", test_article |-> text, counter |-> 0,
   prev_smoothed |-> None, best_score |-> BestSentinel,
   best_article |-> text, best_iter |-> 0,
   no_gain_streak |-> 0, prev_base |-> None, base |-> None,
   mode |-> "none", outcome |-> "RUNNING", returned |-> None, raised |-> None,
   gradeCalls |-> 0, rewriteCalls |-> 0, gradeLog |-> <<>>, rewriteLog |-> <<>>]

\* The Scorer of the two-call runs: a high score, a passing score, a reply
\* without a digit.
ConcReplies == { <<"5", "0">>, <<"1", "8">>, <<"n", "/", "a">> }
ConcLimits == 1..MaxConcLimit
ConcPatiences == { p \in Patiences : p < MaxConcLimit }

ConcInit ==
  /\ article_text \in InputTexts
  /\ scorer = ConcReplies
  /\ limit \in ConcLimits
  /\ threshold = DefaultThreshold
  /\ require_base_improvement = DefaultImprovement
  /\ no_gain_patience \in ConcPatiences
  /\ RunStart
  /\ SmoothIdle
  /\ active = 1
  /\ parked = Some(StartFrame(article_text, scorer, limit, threshold,
                              require_base_improvement, no_gain_patience))

\* The scheduler switches between the two calls at any step boundary.
Switch ==
  /\ parked # None
  /\ Resume(Val(parked))
  /\ parked' = Some(Frame)
  /\ active' = 3 - active
  /\ UNCHANGED smoothVars

ConcNext == Next \/ Switch

ConcSpec == ConcInit /\ [][ConcNext]_vars


\* ------------------------------------------------------------ the claims
Rounds == 1..Len(gradeLog)
Raws == [k \in Rounds |-> gradeLog[k].raw]
Smootheds == [k \in Rounds |-> gradeLog[k].smoothed]
MinSmoothed == CHOOSE m \in {Smootheds[k] : k \in Rounds} : \A k \in Rounds : m <= Smootheds[k]
IsPrefix(s, t) == Len(s) <= Len(t) /\ \A i \in 1..Len(s) : s[i] = t[i]
NoGainAt(k) == k >= 2 /\ Raws[k - 1] - Raws[k] < require_base_improvement

RECURSIVE NoGainRun(_)
\* The number of consecutive rounds ending with round k that brought no gain.
NoGainRun(k) == IF k >= 1 /\ NoGainAt(k) THEN 1 + NoGainRun(k - 1) ELSE 0

AllAboveThreshold == \A k \in Rounds : Smootheds[k] > threshold

\* C1: the number of grade_base calls equals the iteration counter and never
\* exceeds limit, and 0 <= counter <= limit in every reachable state, for any
\* limit.
C1_ScorerCallsWithinLimit ==
  /\ gradeCalls = counter
  /\ 0 <= counter
  /\ counter <= limit

\* C2 (as stated): once a round's raw score is <= threshold, the run is
\* CONVERGED by the end of the next round at the latest.
C2_RawAtThresholdConverges ==
  \A k \in Rounds :
    Raws[k] <= threshold =>
      \/ outcome = "CONVERGED" /\ Len(gradeLog) <= k + 1
      \/ outcome = "RUNNING" /\ Len(gradeLog) = k
      \/ outcome = "FAILED"

\* C2 (amended): convergence is decided on the smoothed score.  A round whose
\* smoothed score is <= threshold is the last one: the run is CONVERGED in that
\* round, returns the text scored in it and rewrites nothing more; in round 1
\* the smoothed score is the raw one.  With threshold 20 the raw scores 50, 18
\* give the smoothed score 38 in round 2 and the run goes on to a rewrite.
C2_SmoothedAtThresholdConverges ==
  /\ \A k \in Rounds :
       Smootheds[k] <= threshold =>
         /\ k = Len(gradeLog)
         /\ pc = "done"
         /\ outcome = "CONVERGED"
         /\ returned = Some(gradeLog[k].text)
         /\ rewriteCalls = k - 1
  /\ outcome = "CONVERGED" => Smootheds[Len(gradeLog)] <= threshold
  /\ Len(gradeLog) >= 1 => Smootheds[1] = Raws[1]
  /\ (threshold = 20 /\ Len(gradeLog) >= 2 /\ Raws[1] = 50 /\ Raws[2] = 18) =>
       /\ Smootheds[2] = 38
       /\ Len(gradeLog) = 2 => outcome # "CONVERGED"
       /\ (Len(gradeLog) = 2 /\ rewriteCalls = 1) => pc = "rewrite"

\* C2 witness: a run CONVERGED in round 4 whose round-2 raw score was already
\* <= threshold while its smoothed score was not.
C2_Witness ==
  /\ outcome = "CONVERGED"
  /\ Len(gradeLog) = 4
  /\ Raws[2] <= threshold
  /\ Smootheds[2] > threshold

\* C3 (as stated): a run whose raw score failed to gain for patience consecutive
\* rounds, never reaching the threshold, is STAGNATED at or before round
\* patience.
C3_StagnatedByRoundPatience ==
  (gradeLog # <<>> /\ AllAboveThreshold /\ NoGainRun(Len(gradeLog)) >= no_gain_patience) =>
    /\ outcome = "STAGNATED"
    /\ counter <= no_gain_patience

\* C3 (amended): the round that completes patience consecutive rounds without a
\* raw gain of require_base_improvement, the smoothed score staying above the
\* threshold, ends the run STAGNATED returning best_article; round 1 has no
\* previous raw score, so this is round patience + 1 at the earliest and never
\* round patience or before.
C3_StagnatedAfterPatienceRounds ==
  /\ (gradeLog # <<>> /\ AllAboveThreshold
        /\ NoGainRun(Len(gradeLog)) >= no_gain_patience) =>
       /\ pc = "done"
       /\ outcome = "STAGNATED"
       /\ returned = Some(best_article)
       /\ counter = Len(gradeLog)
  /\ outcome = "STAGNATED" =>
       /\ counter >= no_gain_patience + 1
       /\ NoGainRun(Len(gradeLog)) = no_gain_patience

\* C3 witness: the default patience exhausted in round patience + 1.
C3_Witness ==
  /\ outcome = "STAGNATED"
  /\ no_gain_patience = DefaultPatience
  /\ counter = no_gain_patience + 1
  /\ returned = Some(best_article)

ExampleRun ==
  /\ limit = 5
  /\ threshold = 20
  /\ require_base_improvement = 2
  /\ no_gain_patience = 3
  /\ IsPrefix(Raws, <<80, 79, 78, 78>>)

NoGainFromRoundTwo ==
  /\ \A k \in Rounds : k >= 2 => NoGainAt(k)
  /\ AllAboveThreshold
  /\ limit >= no_gain_patience + 1

\* C4: with limit 5, threshold 20, improvement 2, patience 3 and the raw scores
\* 80, 79, 78, 78 the rewrites of rounds 1 and 2 are gentle, that of round 3 is
\* aggressive, and round 4 ends the run STAGNATED after 4 scorer calls, returning
\* the text scored in the round of the lowest smoothed score.  In general, when
\* no round from round 2 on gains, the smoothed score stays above the threshold
\* and limit >= patience + 1, the aggressive rewrite is that of round patience
\* and the run is STAGNATED in round patience + 1.
C4_EscalateThenStagnate ==
  /\ ExampleRun =>
       /\ \A i \in 1..Len(rewriteLog) :
            /\ rewriteLog[i].round = i
            /\ rewriteLog[i].mode = (IF i = 3 THEN "aggressive" ELSE "gentle")
       /\ pc = "rewrite" => mode = (IF counter = 3 THEN "aggressive" ELSE "gentle")
       /\ Len(gradeLog) = 4 =>
            /\ pc = "done"
            /\ outcome = "STAGNATED"
            /\ gradeCalls = 4
            /\ rewriteCalls = 3
            /\ Smootheds[3] = MinSmoothed
            /\ returned = Some(gradeLog[3].text)
  /\ NoGainFromRoundTwo =>
       /\ \A i \in 1..Len(rewriteLog) :
            (rewriteLog[i].mode = "aggressive") <=> (rewriteLog[i].round = no_gain_patience)
       /\ pc = "rewrite" => ((mode = "aggressive") <=> (counter = no_gain_patience))
       /\ Len(gradeLog) <= no_gain_patience + 1
       /\ Len(gradeLog) = no_gain_patience + 1 =>
            /\ outcome = "STAGNATED"
            /\ returned = Some(best_article)
       /\ outcome = "STAGNATED" => counter = no_gain_patience + 1

\* C4 witness: the example run after its fourth round.
C4_Witness ==
  /\ ExampleRun
  /\ Len(gradeLog) = 4
  /\ outcome = "STAGNATED"
  /\ rewriteLog[3].mode = "aggressive"

BestMatchesRound ==
  IF best_score < BestSentinel
  THEN /\ best_iter \in Rounds
       /\ gradeLog[best_iter].text = best_article
       /\ gradeLog[best_iter].smoothed = best_score
  ELSE /\ best_score = BestSentinel
       /\ best_iter = 0

BestStep ==
  /\ best_score' <= best_score
  /\ (pc # "start" /\ best_score' = best_score) =>
       (best_article' = best_article /\ best_iter' = best_iter)
  /\ pc = "rewrite" => best_article' = best_article

\* C5: best_score never increases from its sentinel 101; whenever it is below
\* 101, best_article is the text scored in round best_iter and best_score is
\* that round's smoothed score; a rewrite never changes best_article.
C5_BestTracksItsRound == [](BestMatchesRound) /\ [][BestStep]_vars

\* C5 witness: the best article was scored in an earlier round and the text has
\* been rewritten into another one since.
C5_Witness ==
  /\ best_score < BestSentinel
  /\ best_iter < counter
  /\ rewriteCalls > best_iter
  /\ best_article # test_article
  /\ gradeLog[best_iter].text = best_article

\* C6: after the best-tracking step of every round best_score <= that round's
\* smoothed score, and best_score is the minimum of all smoothed scores so far.
C6_BestIsMinimum ==
  IF gradeLog = <<>>
  THEN best_score = BestSentinel
  ELSE /\ prev_smoothed = Some(Smootheds[Len(gradeLog)])
       /\ best_score <= Val(prev_smoothed)
       /\ best_score = MinSmoothed

\* C6 witness: the smoothed score of the last round is above the best one.
C6_Witness ==
  /\ Len(gradeLog) >= 3
  /\ best_score < Val(prev_smoothed)
  /\ best_score = MinSmoothed

ReturnedRound == IF outcome = "CONVERGED" THEN counter ELSE best_iter

\* C7: a run that scored at least one round and ended without a collaborator
\* failure returns a document, and the round in which that document was scored
\* has the minimum smoothed score of the run, whether the run ended CONVERGED,
\* STAGNATED or EXHAUSTED.
C7_ReturnsBestObserved ==
  (pc = "done" /\ gradeLog # <<>>) =>
    /\ outcome \in {"CONVERGED", "STAGNATED", "EXHAUSTED"}
    /\ returned # None
    /\ ReturnedRound \in Rounds
    /\ gradeLog[ReturnedRound].text = Val(returned)
    /\ Smootheds[ReturnedRound] = MinSmoothed

\* C7 witness: an EXHAUSTED run whose returned text is not its current text.
C7_Witness ==
  /\ outcome = "EXHAUSTED"
  /\ gradeLog # <<>>
  /\ best_iter < counter
  /\ returned # Some(test_article)
  /\ Smootheds[best_iter] = MinSmoothed

\* C8: whenever previous is defined, |smooth_score(previous, raw, ...) - previous|
\* <= max_step, for previous and raw in 1..100, max_step > 0, deadband >= 0 and
\* momentum in [0, 1).
C8_SmoothingBounded ==
  (sm_previous # None /\ sm_result # None) =>
    Abs(Val(sm_result) - Val(sm_previous)) <= sm_max_step

\* C8 witness: the blend asks for more than max_step and the result moves by
\* exactly max_step.
C8_Witness ==
  /\ sm_previous # None
  /\ sm_base # None
  /\ ~InDeadband(Val(sm_base) - Val(sm_previous), sm_deadband)
  /\ Abs(BlendStep(Val(sm_previous), Val(sm_base), sm_momentum)) > sm_max_step
  /\ Abs(Val(sm_result) - Val(sm_previous)) = sm_max_step

\* C9: for a defined previous and a raw score with |raw - previous| <= deadband,
\* smooth_score(previous, raw, ...) = previous.
C9_DeadbandIdempotent ==
  (sm_previous # None /\ sm_base # None
     /\ Abs(Val(sm_base) - Val(sm_previous)) <= sm_deadband) =>
    sm_result = sm_previous

\* C9 witness: a raw score off by exactly the deadband, which an unguarded blend
\* would have followed, leaves the result where it was.
C9_Witness ==
  /\ sm_previous # None
  /\ sm_base # None
  /\ sm_deadband >= 1
  /\ Abs(Val(sm_base) - Val(sm_previous)) = sm_deadband
  /\ BlendStep(Val(sm_previous), Val(sm_base), sm_momentum) # 0
  /\ sm_result = sm_previous

\* C10: a run invoked with limit <= 0 or with threshold outside [1,100] fails
\* at once: no Scorer call, no Rewriter call, no document returned.
C10_InvalidConfigRejected ==
  (limit <= 0 \/ threshold < MinScore \/ threshold > MaxScore) =>
    /\ gradeCalls = 0
    /\ rewriteCalls = 0
    /\ returned = None
    /\ outcome \in {"RUNNING", "FAILED"}

\* C11: when the Scorer or the Rewriter fails inside a round, the failure
\* reaches the caller with best_article and best_iter of that moment attached.
C11_FailureCarriesBest ==
  outcome = "FAILED" =>
    /\ raised # None
    /\ Val(raised).attached = Some([best_article |-> best_article, best_iter |-> best_iter])

FailedCalls == (gradeCalls - Len(gradeLog)) + (rewriteCalls - Len(rewriteLog))

FailureIsFinal ==
  /\ FailedCalls \in {0, 1}
  /\ (FailedCalls = 1) <=> (outcome = "FAILED")
  /\ outcome = "FAILED" =>
       /\ pc = "failed"
       /\ raised # None
       /\ returned = None

FailureStep ==
  outcome = "FAILED" =>
    /\ gradeCalls' = gradeCalls
    /\ rewriteCalls' = rewriteCalls
    /\ outcome' = "FAILED"
    /\ returned' = None

\* C12: a failing Scorer or Rewriter call is the last call of the run: it is
\* not retried, no further call follows, the run ends as a failure and returns
\* no document.
C12_FailureEndsRun == [](FailureIsFinal) /\ [][FailureStep]_vars

\* C12 witness: the Rewriter failed in a round after the first.
C12_Witness ==
  /\ outcome = "FAILED"
  /\ rewriteCalls > Len(rewriteLog)
  /\ counter >= 2
  /\ best_score < BestSentinel
  /\ returned = None

InRange(x) == x \in MinScore..MaxScore
ReplyNumber(k) == IntOfDigits(KeepDigits(gradeLog[k].reply))

\* C13: raw and smoothed scores are within [1,100] once defined: a reply outside
\* the range is clamped before it is smoothed, compared with the threshold, used
\* for the streak or handed to the Rewriter, and it never aborts the run.
C13_ScoresClamped ==
  /\ \A k \in Rounds :
       /\ InRange(Raws[k])
       /\ InRange(Smootheds[k])
       /\ ReplyNumber(k) > MaxScore => Raws[k] = MaxScore
       /\ ReplyNumber(k) < MinScore => Raws[k] = MinScore
       /\ InRange(ReplyNumber(k)) => Raws[k] = ReplyNumber(k)
  /\ base # None => InRange(Val(base))
  /\ prev_base # None => InRange(Val(prev_base))
  /\ prev_smoothed # None => InRange(Val(prev_smoothed))
  /\ best_score < BestSentinel => InRange(best_score)
  /\ \A i \in 1..Len(rewriteLog) : InRange(rewriteLog[i].score)
  /\ (raised # None /\ Val(raised).type = "ValueError") =>
       KeepDigits(Val(raised).message) = <<>>

\* C13 witness: replies of 150 and of 0 were scored as 100 and as 1, and the 100
\* went on to the Rewriter.
C13_Witness ==
  /\ Len(gradeLog) >= 2
  /\ ReplyNumber(1) > MaxScore
  /\ Raws[1] = MaxScore
  /\ Len(rewriteLog) >= 1
  /\ rewriteLog[1].score = MaxScore
  /\ ReplyNumber(2) < MinScore
  /\ Raws[2] = MinScore

TerminalShape ==
  IF pc = "done"
  THEN /\ outcome \in {"CONVERGED", "STAGNATED", "EXHAUSTED"}
       /\ outcome = "CONVERGED" => returned = Some(test_article)
       /\ outcome \in {"STAGNATED", "EXHAUSTED"} => returned = Some(best_article)
  ELSE /\ outcome \in {"RUNNING", "FAILED"}
       /\ returned = None

TerminalStep ==
  pc = "done" => (pc' = "done" /\ outcome' = outcome /\ returned' = returned)

\* C14: when every Scorer and Rewriter call returns, a run with limit >= 1
\* eventually reaches one of CONVERGED (returning the current text), STAGNATED
\* and EXHAUSTED (returning best_article), and never leaves it.
C14_ReachesOneTerminalState ==
  /\ (limit >= 1) ~> (pc = "done")
  /\ [](TerminalShape)
  /\ [][TerminalStep]_vars

\* C14 witness: a STAGNATED run returning a best article that is not its
\* current text.
C14_Witness ==
  /\ limit >= 1
  /\ pc = "done"
  /\ outcome = "STAGNATED"
  /\ returned = Some(best_article)
  /\ best_article # test_article

\* What the collaborators gave a call so far: the text after the lede pass,
\* the Scorer's replies, the Rewriter's outputs, the exception if one was raised.
StartText(f) == IF f.gradeLog = <<>> THEN f.test_article ELSE f.gradeLog[1].text
Replies(f) == [i \in 1..Len(f.gradeLog) |-> f.gradeLog[i].reply]
Outs(f) == [i \in 1..Len(f.rewriteLog) |-> f.rewriteLog[i].out]
Arguments(f) ==
  <<f.article_text, f.limit, f.threshold, f.require_base_improvement, f.no_gain_patience>>

SameCollaboratorOutputs(f, g) ==
  /\ Arguments(f) = Arguments(g)
  /\ StartText(f) = StartText(g)
  /\ Replies(f) = Replies(g)
  /\ Outs(f) = Outs(g)
  /\ f.raised = g.raised

\* Two calls at the same place that were given the same values are in the
\* same state, whatever the interleaving was.
SameAsAlone ==
  parked # None =>
    ((pc = Val(parked).pc /\ SameCollaboratorOutputs(Frame, Val(parked)))
       => Frame = Val(parked))

\* A step of one call leaves the frame of the other as it is, and a switch
\* carries both frames over unchanged.
IndependentStep ==
  IF active' = active
  THEN parked' = parked
  ELSE /\ parked' = Some(Frame)
       /\ Frame' = Val(parked)

\* C15: two interleaved calls of refine_article share no mutable state: a
\* step of one leaves every variable of the other unchanged, and each call
\* ends in the state and with the text that the values it was given determine.
C15_RunsAreIndependent ==
  /\ [](SameAsAlone)
  /\ [][IndependentStep]_vars

\* C15 witness: both calls have ended STAGNATED after the same replies, the
\* current one resumed after the other had finished.
C15_Witness ==
  /\ parked # None
  /\ active = 1
  /\ pc = "done"
  /\ outcome = "STAGNATED"
  /\ best_article # test_article
  /\ Val(parked).pc = "done"
  /\ SameCollaboratorOutputs(Frame, Val(parked))

\* C16: a round whose smoothed score is at most threshold ends the run as
\* CONVERGED in that round: the text just scored is returned, humanize_article
\* is not called in that round, and the no-gain streak is neither updated nor
\* consulted, even when the round would have completed a streak of patience
\* rounds without gain.
C16_ConvergenceWinsRound ==
  /\ \A k \in Rounds :
       Smootheds[k] <= threshold => (outcome = "CONVERGED" /\ k = Len(gradeLog))
  /\ outcome = "CONVERGED" =>
       LET k == Len(gradeLog)
       IN /\ k >= 1
          /\ counter = k
          /\ Smootheds[k] <= threshold
          /\ test_article = gradeLog[k].text
          /\ returned = Some(test_article)
          /\ \A i \in 1..Len(rewriteLog) : rewriteLog[i].round < k
          /\ rewriteCalls = Len(rewriteLog)
          /\ no_gain_streak = NoGainRun(k - 1)
          /\ prev_base = IF k = 1 THEN None ELSE Some(Raws[k - 1])

\* C16 witness: a run that converged in a round that completed a streak of
\* no_gain_patience rounds without gain.
C16_Witness ==
  /\ outcome = "CONVERGED"
  /\ NoGainRun(Len(gradeLog)) >= no_gain_patience

\* The smoothing rule as the specification words it, in tenths: the blend
\* previous*momentum + raw*(1 - momentum) minus previous, taken to the nearest
\* integer, cut to max_step in magnitude with its sign kept, added to previous
\* and clamped to the score range.
BlendTenths(previous, raw, momentum) ==
  previous * momentum + raw * (10 - momentum) - previous * 10
Nearest(tenths) ==
  CHOOSE n \in -MaxScore..MaxScore :
    \A m \in -MaxScore..MaxScore : Abs(10 * n - tenths) <= Abs(10 * m - tenths)
Sign(n) == IF n > 0 THEN 1 ELSE IF n < 0 THEN -1 ELSE 0
ReferenceSmooth(previous, raw, momentum, deadband, max_step) ==
  IF previous = None THEN raw
  ELSE IF Abs(raw - Val(previous)) <= deadband THEN Val(previous)
  ELSE LET step == Nearest(BlendTenths(Val(previous), raw, momentum))
           capped == Sign(step) * Min2(Abs(step), max_step)
       IN Max2(MinScore, Min2(MaxScore, Val(previous) + capped))

\* C17: with momentum 0.6, deadband 1 and max_step 12, smooth_score returns
\* what the specified rule gives, for previous absent or in 1..100 and raw in
\* 1..100, and the same value every time it is called with the same arguments.
C17_SmoothMatchesReference ==
  sm_result # None =>
    Val(sm_result) = ReferenceSmooth(sm_previous, Val(sm_base), sm_momentum,
                                     sm_deadband, sm_max_step)

\* C17 witness: from 50 toward 46 the blend moves by -1.6, rounded to -2.
C17_Witness ==
  /\ sm_momentum = DefaultMomentum
  /\ sm_previous = Some(50)
  /\ sm_base = Some(46)
  /\ sm_result = Some(48)

\* The streak update of one step: a round that did not converge compares the
\* raw score with the previous raw score; every other step leaves both alone.
StreakStep ==
  IF Len(gradeLog') = Len(gradeLog) + 1 /\ outcome' # "CONVERGED"
  THEN LET raw == gradeLog'[Len(gradeLog')].raw
       IN /\ no_gain_streak' =
               IF prev_base # None /\ Val(prev_base) - raw < require_base_improvement
               THEN no_gain_streak + 1
               ELSE 0
          /\ prev_base' = Some(raw)
  ELSE UNCHANGED <<no_gain_streak, prev_base>>

\* C18: in every round that does not converge, no_gain_streak grows by exactly
\* one when the raw score fell by less than require_base_improvement from the
\* previous raw score, and is reset to 0 otherwise (also when there is no
\* previous raw score); prev_base then becomes the raw score.  The streak is 0
\* after round 1, and the smoothed score plays no part.
C18_StreakCountsRawGain ==
  /\ [](Len(gradeLog) <= 1 => no_gain_streak = 0)
  /\ [](outcome # "CONVERGED" => no_gain_streak = NoGainRun(Len(gradeLog)))
  /\ [][StreakStep]_vars

\* C18 witness: round 3 gained 2 on the raw score and only 1 on the smoothed
\* score, and reset a streak of 1.
C18_Witness ==
  /\ Len(gradeLog) = 3
  /\ pc = "rewrite"
  /\ NoGainAt(2)
  /\ Raws[2] - Raws[3] >= require_base_improvement
  /\ Smootheds[2] - Smootheds[3] < require_base_improvement
  /\ no_gain_streak = 0

RewriteModeOfRound(i) ==
  IF NoGainRun(i) = no_gain_patience - 1 /\ i < limit THEN "aggressive" ELSE "gentle"

\* C19: every round that does not end the run makes exactly one
\* humanize_article call, aggressive exactly when the updated streak equals
\* no_gain_patience - 1 and counter < limit, gentle otherwise (so also in the
\* last round with the streak at no_gain_patience - 1); no round makes two calls.
C19_OneRewritePerRound ==
  /\ \A i \in 1..Len(rewriteLog) :
       /\ rewriteLog[i].round = i
       /\ rewriteLog[i].mode = RewriteModeOfRound(i)
  /\ rewriteCalls <= counter
  /\ pc = "loop" => rewriteCalls = counter
  /\ pc = "rewrite" => (rewriteCalls = counter - 1 /\ mode = RewriteModeOfRound(counter))
  /\ (pc = "done" /\ outcome # "EXHAUSTED") => rewriteCalls = counter - 1

\* C19 witness: the last round ended with the streak at no_gain_patience - 1
\* and its rewrite was gentle.
C19_Witness ==
  /\ no_gain_patience >= 2
  /\ limit >= 2
  /\ Len(rewriteLog) = limit
  /\ NoGainRun(limit) = no_gain_patience - 1
  /\ rewriteLog[limit].mode = "gentle"

AggressiveRounds == { i \in 1..Len(rewriteLog) : rewriteLog[i].mode = "aggressive" }

\* C20 (as stated): a run makes at most one aggressive humanize_article call,
\* whatever limit, no_gain_patience and scores are.
C20_AtMostOneAggressive == Cardinality(AggressiveRounds) <= 1

\* C20 (amended): the escalation is decided anew in every round.  One streak
\* of rounds without gain brings at most one aggressive call: an aggressive
\* call is made in a round from no_gain_patience on and before limit, two
\* aggressive calls lie at least no_gain_patience rounds apart with a round of
\* raw gain between them, and a run with limit < 2 * no_gain_patience (the
\* defaults are 5 and 3) makes at most one.
C20_OneAggressivePerStreak ==
  /\ \A i \in AggressiveRounds :
       /\ i >= no_gain_patience
       /\ i < limit
       /\ \A j \in AggressiveRounds :
            i < j => /\ j - i >= no_gain_patience
                     /\ \E k \in (i + 1)..j : ~NoGainAt(k)
  /\ limit < 2 * no_gain_patience => Cardinality(AggressiveRounds) <= 1

\* C20 witness: a run with no_gain_patience = 2 that made two aggressive calls.
C20_Witness ==
  /\ no_gain_patience = 2
  /\ Cardinality(AggressiveRounds) = 2

\* C21: a run that does not converge returns best_article.  It ends as
\* STAGNATED in the very round whose streak update brought no_gain_streak to
\* no_gain_patience or more, without a humanize_article call in that round,
\* and as EXHAUSTED when round limit is over with neither convergence nor
\* stagnation; the current text is returned only where it is best_article.
C21_NonConvergedReturnsBest ==
  /\ outcome = "STAGNATED" <=> no_gain_streak >= no_gain_patience
  /\ outcome = "STAGNATED" =>
       /\ pc = "done"
       /\ NoGainRun(counter) >= no_gain_patience
       /\ rewriteCalls = counter - 1
       /\ Len(rewriteLog) = counter - 1
       /\ returned = Some(best_article)
  /\ outcome = "EXHAUSTED" =>
       /\ pc = "done"
       /\ counter = Max2(limit, 0)
       /\ Len(gradeLog) = counter
       /\ AllAboveThreshold
       /\ returned = Some(best_article)
  /\ (outcome \in {"STAGNATED", "EXHAUSTED"} /\ returned = Some(test_article)) =>
       test_article = best_article

\* C21 witness: an EXHAUSTED run of at least two rounds whose returned text is
\* not the current one.
C21_Witness ==
  /\ outcome = "EXHAUSTED"
  /\ limit >= 2
  /\ counter = limit
  /\ returned = Some(best_article)
  /\ returned # Some(test_article)

\* A step that changes the current text is the preprocessing step or a
\* humanize_article call whose output becomes the text.
TextStep ==
  test_article' # test_article =>
    \/ /\ pc = "start"
       /\ pc' = "loop"
       /\ counter = 0
    \/ /\ pc = "rewrite"
       /\ pc' = "loop"
       /\ Len(rewriteLog') = Len(rewriteLog) + 1
       /\ test_article' = rewriteLog'[Len(rewriteLog')].out

\* A step that grades, tracks the best, counts the streak, returns or fails
\* keeps the current text.
TextKept == (pc # "start" /\ pc # "rewrite") => test_article' = test_article

\* C22: test_article changes only in the preprocessing step and in a
\* humanize_article call, which replaces it by the call's output; grading,
\* smoothing, best tracking, streak tracking and the returns leave it alone.
C22_TextChangesOnlyByRewrite ==
  /\ [][TextStep]_vars
  /\ [][TextKept]_vars
  /\ [](pc = "start" => test_article = article_text)

\* C22 witness: a rewrite has replaced the text it was given by another one.
C22_Witness ==
  /\ pc = "loop"
  /\ rewriteLog # <<>>
  /\ test_article = rewriteLog[Len(rewriteLog)].out
  /\ test_article # rewriteLog[Len(rewriteLog)].text

\* C23: no failure of a preprocessing step reaches the caller: an exception
\* leaves refine_article only after a Scorer or Rewriter call, and round 1
\* starts with the scrubbed text, the lede pass's output, or, when the scrub
\* failed, the text as it was given.
C23_PreprocessingNeverAborts ==
  /\ raised # None => gradeCalls + rewriteCalls >= 1
  /\ (pc = "loop" /\ counter = 0) =>
       test_article \in {article_text, scrub_boilerplate(article_text)} \cup LedeOutputs

PreprocessedOnce == pc # "start" => pc' # "start"

TextsInOrder ==
  /\ pc = "start" => (gradeCalls = 0 /\ rewriteCalls = 0)
  /\ gradeLog # <<>> =>
       gradeLog[1].text \in {scrub_boilerplate(article_text)} \cup LedeOutputs
  /\ Len(rewriteLog) <= Len(gradeLog)
  /\ \A k \in 1..Len(rewriteLog) :
       /\ rewriteLog[k].round = k
       /\ rewriteLog[k].text = gradeLog[k].text
       /\ rewriteLog[k].score = gradeLog[k].raw
  /\ \A k \in 1..(Len(gradeLog) - 1) :
       gradeLog[k + 1].text = rewriteLog[k].out

\* C24: the preprocessing runs once, before the first grade_base call; round 1
\* scores the preprocessed text, round k+1 scores the output of the one
\* humanize_article call of round k, and every humanize_article call is given
\* the text just scored and that round's raw score.
C24_RoundsOrderedOnText ==
  /\ [](TextsInOrder)
  /\ [][PreprocessedOnce]_vars

\* C24 witness: three rounds were scored, and the rewrite of round 2 was given
\* a raw score that differs from the smoothed one.
C24_Witness ==
  /\ Len(gradeLog) = 3
  /\ gradeLog[2].raw # gradeLog[2].smoothed
  /\ rewriteLog[2].score = gradeLog[2].raw
  /\ gradeLog[3].text = rewriteLog[2].out
  /\ gradeLog[3].text # gradeLog[2].text

\* C25: in a CONVERGED run the returned current text is best_article and
\* best_iter is the last round: every earlier round had a smoothed score
\* strictly above the converging round's.
C25_ConvergedIsBest ==
  outcome = "CONVERGED" =>
    /\ returned = Some(test_article)
    /\ best_article = test_article
    /\ best_iter = counter
    /\ best_score = Smootheds[counter]
    /\ \A k \in 1..(counter - 1) : Smootheds[k] > Smootheds[counter]

\* C25 witness: a run that converged in round 3 or later although an earlier
\* round had a raw score as low as the last one.
C25_Witness ==
  /\ outcome = "CONVERGED"
  /\ counter >= 3
  /\ best_iter = counter
  /\ \E k \in 1..(counter - 1) : Raws[k] <= Raws[counter]

\* C26: with no_gain_patience >= 1 a run that ends STAGNATED in round k has
\* k >= no_gain_patience + 1, and round k - 1 made an aggressive
\* humanize_article call whose output is the text scored in round k; so no
\* run with limit <= no_gain_patience ends STAGNATED.
C26_StagnationFollowsEscalation ==
  /\ outcome = "STAGNATED" =>
       /\ counter >= no_gain_patience + 1
       /\ Len(rewriteLog) = counter - 1
       /\ rewriteLog[counter - 1].round = counter - 1
       /\ rewriteLog[counter - 1].mode = "aggressive"
       /\ gradeLog[counter].text = rewriteLog[counter - 1].out
  /\ limit <= no_gain_patience => outcome # "STAGNATED"

\* C26 witness: with no_gain_patience = 1 the run escalated in round 1 and
\* ended STAGNATED in round 2.
C26_Witness ==
  /\ outcome = "STAGNATED"
  /\ no_gain_patience = 1
  /\ counter = 2
  /\ rewriteLog[1].mode = "aggressive"

LastOutput == rewriteLog[Len(rewriteLog)].out

BestReplacedStep ==
  (best_article' # best_article \/ best_iter' # best_iter) =>
    \/ pc = "start"
    \/ /\ Len(gradeLog') = Len(gradeLog) + 1
       /\ gradeLog'[Len(gradeLog')].smoothed < best_score
       /\ best_iter' = Len(gradeLog')

\* C28: best_article is replaced only when the round's smoothed score is
\* strictly below best_score; among rounds that share the minimum smoothed
\* score the earliest keeps its text, and best_iter is the smallest round
\* with that minimum.
C28_EarliestMinimumKept ==
  /\ [](gradeLog # <<>> =>
          /\ best_iter \in Rounds
          /\ Smootheds[best_iter] = MinSmoothed
          /\ \A k \in 1..(best_iter - 1) : Smootheds[k] > MinSmoothed
          /\ best_article = gradeLog[best_iter].text)
  /\ [][BestReplacedStep]_vars

\* C28 witness: a later round with another text tied with the best round.
C28_Witness ==
  /\ gradeLog # <<>>
  /\ \E j \in Rounds :
       /\ j > best_iter
       /\ Smootheds[j] = best_score
       /\ gradeLog[j].text # best_article

MinRaw == CHOOSE m \in {Raws[k] : k \in Rounds} : \A k \in Rounds : m <= Raws[k]

\* C29 (as stated): the text a STAGNATED or EXHAUSTED run returns has the
\* lowest raw score of all the texts the run scored.
C29_ReturnsLowestRaw ==
  (outcome \in {"STAGNATED", "EXHAUSTED"} /\ gradeLog # <<>>) =>
    /\ returned = Some(gradeLog[best_iter].text)
    /\ Raws[best_iter] = MinRaw

\* C29 (amended): the best is chosen by smoothed score, which lags the raw
\* score, so another scored text can have a strictly lower raw score than the
\* returned one.  What holds of the raw score: that of the returned text is at
\* most the smoothed score of every round, and so at most the raw score of
\* the text scored in round 1.
C29_ReturnedRawBelowSmoothed ==
  (outcome \in {"STAGNATED", "EXHAUSTED"} /\ gradeLog # <<>>) =>
    /\ returned = Some(gradeLog[best_iter].text)
    /\ \A k \in Rounds : Raws[best_iter] <= Smootheds[k]
    /\ Raws[best_iter] <= Raws[1]

\* C29 witness: the returned text had a raw score above that of another
\* scored text.
C29_Witness ==
  /\ outcome \in {"STAGNATED", "EXHAUSTED"}
  /\ gradeLog # <<>>
  /\ returned = Some(gradeLog[best_iter].text)
  /\ Raws[best_iter] > MinRaw

Between(lo, x, hi) == Min2(lo, hi) <= x /\ x <= Max2(lo, hi)

\* smooth_score, as line 275 calls it, never leaves the interval spanned by
\* previous and raw, whatever scores they are.
NoOvershoot ==
  \A p \in ScoreRange, r \in ScoreRange :
    Between(p, smooth_score(Some(p), r, DefaultMomentum, DefaultDeadband, DefaultMaxStep), r)

MaxRawUpTo(k) == CHOOSE m \in {Raws[j] : j \in 1..k} : \A j \in 1..k : Raws[j] <= m
MinRawUpTo(k) == CHOOSE m \in {Raws[j] : j \in 1..k} : \A j \in 1..k : m <= Raws[j]

\* C30: for previous and raw in 1..100 the smoothed value lies between
\* previous and raw, so it moves toward raw and never past it; hence every
\* smoothed score of a run lies between the lowest and the highest raw score
\* seen up to its round.
C30_SmoothedWithinRaws ==
  /\ pc = "start" => NoOvershoot
  /\ \A k \in Rounds :
       /\ k = 1 => Smootheds[k] = Raws[k]
       /\ k > 1 => Between(Smootheds[k - 1], Smootheds[k], Raws[k])
       /\ MinRawUpTo(k) <= Smootheds[k]
       /\ Smootheds[k] <= MaxRawUpTo(k)

\* C30 witness: the smoothed score of round 2 lies strictly between the
\* smoothed score of round 1 and the raw score of round 2.
C30_Witness ==
  /\ Len(gradeLog) >= 2
  /\ Smootheds[2] # Smootheds[1]
  /\ Smootheds[2] # Raws[2]
  /\ Between(Smootheds[1], Smootheds[2], Raws[2])

====
